---- MODULE Spec2Model ----
(***************************************************************************)
(* Hazard scoring and zone-risk aggregation of the dumper safety system.   *)
(*                                                                         *)
(*   backend/hazard_scoring.py  calculate_hazard_score, calculate_zone_risk*)
(*                              generate_alert_message                     *)
(*   backend/main.py            calculate_hazard_score (service layer) and *)
(*                              the detection loop of /detect/image        *)
(*                                                                         *)
(* Numbers.  Python floats are modelled by exact rationals: a quotient is  *)
(* kept as numerator and denominator and compared by cross-multiplying.    *)
(* A multiplier or weight w is held as the integer 100*w.  Every score     *)
(* stored in a dict is held in thousandths of a point (12.34 is 12340), so *)
(* that a two-decimal score and a score with more decimals live in one     *)
(* unit.  round(x, 2) is round-half-to-even on the exact value.            *)
(***************************************************************************)
EXTENDS Integers, Sequences, FiniteSets, TLC

VARIABLES call, record, embedded, detections, zone

vars == <<call, record, embedded, detections, zone>>

(***************************************************************************)
(* Bounds of the model.                                                    *)
(***************************************************************************)
MaxX == 5
MaxY == 12
MaxDetections == 3

Min(a, b) == IF a <= b THEN a ELSE b

None == [none |-> TRUE]

(* A raised exception: the call returns no dict. *)
Raise(name, line) == [error |-> name, line |-> line]

IsError(r) == "error" \in DOMAIN r

(* Mutation: the quotient is truncated instead of rounded. *)
RoundDown(n, d) == n \div d

(***************************************************************************)
(* round(n / d, 0) for d > 0, ties to the even integer (Python's round).   *)
(***************************************************************************)
RoundHalfEven(n, d) ==
    LET q == n \div d
        r == n % d
    IN  IF 2 * r < d THEN q
        ELSE IF 2 * r > d THEN q + 1
        ELSE IF q % 2 = 0 THEN q ELSE q + 1

(***************************************************************************)
(* str.lower() on the class names of the model.                            *)
(***************************************************************************)
Lower(s) ==
    CASE s = "Person" -> "person"
      [] s = "CHILD" -> "child"
      [] OTHER -> s

(***************************************************************************)
(* hazard_scoring.py: class_multipliers.get(key, 1.0), times 100.          *)
(***************************************************************************)
class_multipliers(key) ==
    CASE key \in {"person", "human", "worker", "pedestrian"} -> 120
      [] key = "child" -> 130
      [] key \in {"animal", "dog", "cat"} -> 110
      [] key \in {"vehicle", "car", "truck"} -> 90
      [] key \in {"bicycle", "motorcycle"} -> 100
      [] OTHER -> 100

(***************************************************************************)
(* The if/elif chain on final_score = fn / (100 * fd), fd > 0.             *)
(***************************************************************************)
LevelOf(fn, fd) ==
    IF fn >= 8000 * fd THEN "CRITICAL"
    ELSE IF fn >= 6000 * fd THEN "HIGH"
    ELSE IF fn >= 4000 * fd THEN "MEDIUM"
    ELSE "LOW"

DistanceOf(level) ==
    CASE level = "CRITICAL" -> "0-2m"
      [] level = "HIGH" -> "2-5m"
      [] level = "MEDIUM" -> "5-8m"
      [] OTHER -> "8m+"

ColorOf(level) ==
    CASE level = "CRITICAL" -> "#FF0000"
      [] level = "HIGH" -> "#FF6B00"
      [] level = "MEDIUM" -> "#FFD700"
      [] OTHER -> "#00FF00"

ActionOf(level) ==
    CASE level = "CRITICAL" -> "STOP IMMEDIATELY"
      [] level = "HIGH" -> "PROCEED WITH CAUTION"
      [] level = "MEDIUM" -> "MONITOR CLOSELY"
      [] OTHER -> "SAFE TO PROCEED"

(***************************************************************************)
(* bbox_area = bbox_width * bbox_height                                    *)
(***************************************************************************)
BBoxArea(bbox) == (bbox[3] - bbox[1]) * (bbox[4] - bbox[2])

(***************************************************************************)
(* size_ratio * 700 + bottom_position * 30 as the quotient n / d with      *)
(* d > 0, for image_area # 0:                                              *)
(*   700 * area / (h * w) + 30 * y2 / h = (700 * area + 30 * y2 * w)/(h*w) *)
(***************************************************************************)
RawScore(bbox, shape) ==
    LET n == 700 * BBoxArea(bbox) + 30 * bbox[4] * shape[2]
        d == shape[1] * shape[2]
    IN  IF d > 0 THEN [n |-> n, d |-> d] ELSE [n |-> -n, d |-> -d]

(***************************************************************************)
(* base_score = min(base_score, 100)                                       *)
(***************************************************************************)
BaseScore(bbox, shape) ==
    LET raw == RawScore(bbox, shape)
    IN  [n |-> Min(raw.n, 100 * raw.d), d |-> raw.d]

(* Mutation: the final min(..., 100) is left out. *)
FinalScoreNoClamp(bbox, shape, multiplier) ==
    LET raw == RawScore(bbox, shape)
    IN  [n |-> Min(raw.n, 100 * raw.d) * multiplier, d |-> raw.d]

(***************************************************************************)
(* final_score = min(base_score * multiplier, 100), as fn / (100 * fd).    *)
(***************************************************************************)
FinalScore(bbox, shape, multiplier) ==
    LET base == BaseScore(bbox, shape)
    IN  [n |-> Min(base.n * multiplier, 10000 * base.d), d |-> base.d]

(***************************************************************************)
(* hazard_scoring.calculate_hazard_score                                   *)
(***************************************************************************)
calculate_hazard_score(bbox, shape, class_name) ==
    IF shape[1] * shape[2] = 0
    THEN Raise("ZeroDivisionError", 27)
    ELSE
        LET multiplier == class_multipliers(Lower(class_name))
            final == FinalScore(bbox, shape, multiplier)
            hazard_level == LevelOf(final.n, final.d)
        IN  [score |-> 10 * RoundHalfEven(final.n, final.d),
             level |-> hazard_level,
             estimated_distance |-> DistanceOf(hazard_level),
             color_code |-> ColorOf(hazard_level),
             recommended_action |-> ActionOf(hazard_level),
             priority |-> multiplier]

(***************************************************************************)
(* main.py: class_weights.get(class_name.lower(), 0.7) if class_name else  *)
(* 0.7, times 100.                                                         *)
(***************************************************************************)
class_weights(class_name) ==
    LET key == Lower(class_name)
    IN  IF class_name = "" THEN 70
        ELSE CASE key \in {"person", "worker"} -> 100
               [] key = "car" -> 95
               [] key = "truck" -> 98
               [] key = "bus" -> 96
               [] key = "motorcycle" -> 90
               [] key = "bicycle" -> 80
               [] key = "dog" -> 55
               [] key = "cat" -> 35
               [] OTHER -> 70

(***************************************************************************)
(* main.py: score = min((size_ratio*700 + bottom_position*30) * weight,    *)
(* 100), as n / (100 * d).  The base score is not clamped first.           *)
(***************************************************************************)
ServiceScore(bbox, shape, weight) ==
    LET raw == RawScore(bbox, shape)
    IN  [n |-> Min(raw.n * weight, 10000 * raw.d), d |-> raw.d]

(***************************************************************************)
(* main.calculate_hazard_score (the service layer's scoring function)      *)
(***************************************************************************)
main_calculate_hazard_score(bbox, shape, class_name) ==
    IF shape[1] * shape[2] = 0
    THEN Raise("ZeroDivisionError", 82)
    ELSE
        LET score == ServiceScore(bbox, shape, class_weights(class_name))
            hazard_level == LevelOf(score.n, score.d)
        IN  [score |-> 10 * RoundHalfEven(score.n, score.d),
             level |-> hazard_level,
             estimated_distance |-> DistanceOf(hazard_level)]

(***************************************************************************)
(* main.py, the body of the loop over the boxes of /detect/image and       *)
(* /detect/video: the dict appended to `detections`.  The confidence comes *)
(* from the detector and plays no part in the scoring; it is left out.     *)
(* An exception of the scoring function leaves the loop.                   *)
(***************************************************************************)
EmbedDetection(bbox, shape, class_name) ==
    LET hazard == main_calculate_hazard_score(bbox, shape, class_name)
    IN  IF IsError(hazard) THEN hazard
        ELSE [class |-> class_name,
              bbox |-> bbox,
              hazard_score |-> hazard.score,
              hazard_level |-> hazard.level,
              estimated_distance |-> hazard.estimated_distance]

(***************************************************************************)
(* sum(1 for d in detections if lo <= d["hazard_score"] < hi), the scores  *)
(* in thousandths; hi = 0 stands for no upper limit.                       *)
(***************************************************************************)
CountBetween(dets, lo, hi) ==
    Cardinality({i \in 1..Len(dets) :
        /\ dets[i].hazard_score >= lo
        /\ (hi = 0 \/ dets[i].hazard_score < hi)})

critical_count(dets) == CountBetween(dets, 80000, 0)

(* Mutation: the upper limit of the bucket is left out. *)
high_count_unbounded(dets) == CountBetween(dets, 60000, 0)

high_count(dets) == CountBetween(dets, 60000, 80000)

medium_count(dets) == CountBetween(dets, 40000, 60000)

(***************************************************************************)
(* max(d["hazard_score"] for d in detections)                              *)
(***************************************************************************)
max_hazard(dets) ==
    CHOOSE m \in {dets[i].hazard_score : i \in 1..Len(dets)} :
        \A i \in 1..Len(dets) : dets[i].hazard_score <= m

(* Mutation: a frame with nothing above the low bucket is reported SAFE. *)
OverallRiskSafeWhenLow(critical, high, medium) ==
    IF critical > 0 THEN "CRITICAL"
    ELSE IF high > 0 THEN "HIGH"
    ELSE IF medium > 0 THEN "MEDIUM"
    ELSE "SAFE"

(***************************************************************************)
(* The if/elif chain that determines overall_risk.                         *)
(***************************************************************************)
OverallRisk(critical, high, medium) ==
    IF critical > 0 THEN "CRITICAL"
    ELSE IF high > 0 THEN "HIGH"
    ELSE IF medium > 0 THEN "MEDIUM"
    ELSE "LOW"

(***************************************************************************)
(* The f-strings of the recommendation.                                    *)
(***************************************************************************)
Recommendation(critical, high, medium) ==
    IF critical > 0
    THEN "STOP! " \o ToString(critical) \o " object(s) in critical zone (0-2m)"
    ELSE IF high > 0
    THEN "CAUTION: " \o ToString(high) \o " object(s) in high-risk zone (2-5m)"
    ELSE IF medium > 0
    THEN "MONITOR: " \o ToString(medium) \o " object(s) detected (5-8m)"
    ELSE "Objects detected at safe distance (8m+)"

(***************************************************************************)
(* hazard_scoring.calculate_zone_risk(detections, image_shape).  The       *)
(* image_shape argument is not read.  d["hazard_score"] raises KeyError on *)
(* a dict without that key.                                                *)
(***************************************************************************)
calculate_zone_risk(dets) ==
    IF dets = <<>>
    THEN [overall_risk |-> "SAFE",
          max_hazard_score |-> 0,
          critical_objects |-> 0,
          high_priority_objects |-> 0,
          recommendation |-> "No objects detected. Safe to proceed."]
    ELSE IF \E i \in 1..Len(dets) : "hazard_score" \notin DOMAIN dets[i]
    THEN Raise("KeyError", 112)
    ELSE
        LET critical == critical_count(dets)
            high == high_count(dets)
            medium == medium_count(dets)
        IN  [overall_risk |-> OverallRisk(critical, high, medium),
             max_hazard_score |-> 10 * RoundHalfEven(max_hazard(dets), 10),
             critical_objects |-> critical,
             high_risk_objects |-> high,
             medium_risk_objects |-> medium,
             total_objects |-> Len(dets),
             recommendation |-> Recommendation(critical, high, medium)]

(***************************************************************************)
(* hazard_scoring.generate_alert_message(zone_risk)                        *)
(***************************************************************************)
generate_alert_message(zone_risk) ==
    LET risk_level == zone_risk.overall_risk
    IN  CASE risk_level = "CRITICAL" ->
               "CRITICAL ALERT: Object detected in immediate vicinity! STOP DUMPING!"
          [] risk_level = "HIGH" ->
               "HIGH RISK: Object approaching danger zone. Proceed with extreme caution."
          [] risk_level = "MEDIUM" ->
               "CAUTION: Object detected nearby. Monitor before dumping."
          [] risk_level = "LOW" -> "LOW RISK: Area monitored. Safe to proceed."
          [] risk_level = "SAFE" -> "SAFE: No objects detected in monitoring zones."
          [] OTHER -> "Status unknown"

(***************************************************************************)
(* Inputs.                                                                 *)
(***************************************************************************)
BBoxes == {<<x1, y1, x2, y2>> : x1 \in 0..MaxX, y1 \in 0..MaxY,
                                 x2 \in 0..MaxX, y2 \in 0..MaxY}

ImageShapes == {<<14, 67>>, <<12, 23>>, <<10, 10>>,
                <<0, 23>>, <<12, 0>>, <<-12, 23>>, <<12, -23>>}

ClassNames == {"person", "Person", "child", "dog", "car", "drone", ""}

(***************************************************************************)
(* The arguments of one call: Init draws them, the actions apply the       *)
(* functions to them.                                                      *)
(***************************************************************************)
Calls == [bbox : BBoxes, image_shape : ImageShapes, class_name : ClassNames]

(***************************************************************************)
(* hazard_scoring.calculate_hazard_score(bbox, image_shape, class_name)    *)
(***************************************************************************)
ScoreEngine ==
    /\ record = None
    /\ record' = calculate_hazard_score(call.bbox, call.image_shape, call.class_name)
    /\ UNCHANGED <<call, embedded, detections, zone>>

(***************************************************************************)
(* main.py: the endpoint scores the same box with the service function and *)
(* embeds the result in the detection.                                     *)
(***************************************************************************)
DetectBox ==
    /\ embedded = None
    /\ embedded' = EmbedDetection(call.bbox, call.image_shape, call.class_name)
    /\ UNCHANGED <<call, record, detections, zone>>

Init ==
    /\ call \in Calls
    /\ record = None
    /\ embedded = None
    /\ detections = <<>>
    /\ zone = None

Next ==
    \/ ScoreEngine
    \/ DetectBox

Spec == Init /\ [][Next]_vars

(***************************************************************************)
(* The frame pipeline: the detections of one frame are collected and then  *)
(* reduced by calculate_zone_risk.                                         *)
(***************************************************************************)
ZoneCalls ==
    {[bbox |-> <<0, 0, 1, 1>>, image_shape |-> <<10, 10>>, class_name |-> "person"],
     [bbox |-> <<0, 0, 4, 12>>, image_shape |-> <<14, 67>>, class_name |-> "child"],
     [bbox |-> <<0, 0, 4, 6>>, image_shape |-> <<12, 23>>, class_name |-> "drone"],
     [bbox |-> <<0, 0, 3, 8>>, image_shape |-> <<12, 23>>, class_name |-> "person"],
     [bbox |-> <<0, 0, 2, 5>>, image_shape |-> <<12, 23>>, class_name |-> "car"]}

(* Scores of records that did not come from the two scoring functions. *)
ForeignScores == {30000, 40000, 62000, 79996, 85000}

(***************************************************************************)
(* main.py: detections.append({... "hazard_score": hazard["score"] ...})   *)
(***************************************************************************)
AppendDetection(c) ==
    LET d == EmbedDetection(c.bbox, c.image_shape, c.class_name)
    IN  /\ zone = None
        /\ Len(detections) < MaxDetections
        /\ ~IsError(d)
        /\ detections' = Append(detections, d)
        /\ UNCHANGED <<call, record, embedded, zone>>

(***************************************************************************)
(* The score engine's HazardRecord itself is put in the list, as in the    *)
(* flow ScoreEngine -> list of hazard records -> ZoneAggregator.           *)
(***************************************************************************)
AppendRecord(c) ==
    LET r == calculate_hazard_score(c.bbox, c.image_shape, c.class_name)
    IN  /\ zone = None
        /\ Len(detections) < MaxDetections
        /\ ~IsError(r)
        /\ detections' = Append(detections, r)
        /\ UNCHANGED <<call, record, embedded, zone>>

(***************************************************************************)
(* A record from elsewhere that carries a hazard_score.                    *)
(***************************************************************************)
AppendForeign(score) ==
    /\ zone = None
    /\ Len(detections) < MaxDetections
    /\ detections' = Append(detections, [hazard_score |-> score])
    /\ UNCHANGED <<call, record, embedded, zone>>

(***************************************************************************)
(* zone = calculate_zone_risk(detections, image_shape)                     *)
(***************************************************************************)
Aggregate ==
    /\ zone = None
    /\ zone' = calculate_zone_risk(detections)
    /\ UNCHANGED <<call, record, embedded, detections>>

(***************************************************************************)
(* The next frame starts with detections = [].                             *)
(***************************************************************************)
NextFrame ==
    /\ zone # None
    /\ detections' = <<>>
    /\ zone' = None
    /\ UNCHANGED <<call, record, embedded>>

ZoneInit ==
    /\ call = None
    /\ record = None
    /\ embedded = None
    /\ detections = <<>>
    /\ zone = None

ZoneNext ==
    \/ \E c \in ZoneCalls : AppendDetection(c)
    \/ \E c \in ZoneCalls : AppendRecord(c)
    \/ \E score \in ForeignScores : AppendForeign(score)
    \/ Aggregate
    \/ NextFrame

ZoneSpec == ZoneInit /\ [][ZoneNext]_vars

(***************************************************************************)
(* Vocabulary of the properties.                                           *)
(***************************************************************************)
ValidImage(shape) == shape[1] > 0 /\ shape[2] > 0

ValidBBox(bbox, shape) ==
    /\ 0 <= bbox[1] /\ bbox[1] <= bbox[3] /\ bbox[3] <= shape[2]
    /\ 0 <= bbox[2] /\ bbox[2] <= bbox[4] /\ bbox[4] <= shape[1]

ValidCall == ValidImage(call.image_shape) /\ ValidBBox(call.bbox, call.image_shape)

Inverted(bbox) == bbox[3] < bbox[1] \/ bbox[4] < bbox[2]

(* The score engine has been called and has returned a HazardRecord. *)
Returned == record # None /\ ~IsError(record)

(* The level the thresholds assign to a stored score (thousandths). *)
ThresholdLevel(score) ==
    IF score >= 80000 THEN "CRITICAL"
    ELSE IF score >= 60000 THEN "HIGH"
    ELSE IF score >= 40000 THEN "MEDIUM"
    ELSE "LOW"

(* base_score * multiplier of the current call, as n / (100 * d). *)
CallProduct ==
    LET base == BaseScore(call.bbox, call.image_shape)
    IN  [n |-> base.n * class_multipliers(Lower(call.class_name)), d |-> base.d]

(***************************************************************************)
(* C1: for a positive image and a bbox inside it, with any class name, the *)
(* score engine returns a record whose score lies in [0, 100].             *)
(***************************************************************************)
C1_ScoreInRange ==
    (ValidCall /\ record # None) =>
        /\ ~IsError(record)
        /\ 0 <= record.score
        /\ record.score <= 100000

(* A valid call whose unclamped product exceeds 100 and is returned as 100. *)
C1_Witness ==
    /\ ValidCall /\ Returned
    /\ CallProduct.n > 10000 * CallProduct.d
    /\ record.score = 100000

(***************************************************************************)
(* C2: in every returned record the level and the distance bucket are the  *)
(* ones the thresholds 40, 60, 80 assign to the returned two-decimal       *)
(* score.  Stated here for valid calls only, which the claim includes.     *)
(***************************************************************************)
C2_LevelAgreesWithScore ==
    (ValidCall /\ Returned) =>
        /\ record.level = ThresholdLevel(record.score)
        /\ record.estimated_distance = DistanceOf(ThresholdLevel(record.score))

(***************************************************************************)
(* C7: an inverted bbox (x2 < x1 or y2 < y1) in a positive image scores as *)
(* the zero-area box with the same y2, and never below 0.                  *)
(***************************************************************************)
C7_InvertedBoxClamped ==
    (ValidImage(call.image_shape) /\ Inverted(call.bbox) /\ Returned) =>
        LET b == call.bbox
            flat == calculate_hazard_score(<<b[1], b[4], b[1], b[4]>>,
                                           call.image_shape, call.class_name)
        IN  record.score = flat.score /\ record.score >= 0

(***************************************************************************)
(* C8: with an image area height * width that is zero or negative the      *)
(* score engine fails and returns no record.                               *)
(***************************************************************************)
C8_NonPositiveAreaFails ==
    (call.image_shape[1] * call.image_shape[2] <= 0 /\ record # None) =>
        IsError(record)

(***************************************************************************)
(* C9 as stated: for a valid call the returned score is 100 exactly when   *)
(* base_score * multiplier >= 100.                                         *)
(***************************************************************************)
C9_HundredIffProductAtLeast100 ==
    (ValidCall /\ Returned) =>
        (record.score = 100000 <=> CallProduct.n >= 10000 * CallProduct.d)

(***************************************************************************)
(* C9 amended: for a valid call, a product >= 100 is returned as 100, a    *)
(* product below 99.995 is returned below 100, and a product above 99.995  *)
(* is returned as 100 (it rounds to 100.00 at two decimals).               *)
(***************************************************************************)
C9_HundredIffRoundsTo100 ==
    (ValidCall /\ Returned) =>
        /\ (CallProduct.n >= 10000 * CallProduct.d => record.score = 100000)
        /\ (2 * CallProduct.n < 19999 * CallProduct.d => record.score < 100000)
        /\ (2 * CallProduct.n > 19999 * CallProduct.d => record.score = 100000)

(* A valid call with 99.995 < base_score * multiplier < 100, returned as 100. *)
C9_Witness ==
    /\ ValidCall /\ Returned
    /\ 2 * CallProduct.n > 19999 * CallProduct.d
    /\ CallProduct.n < 10000 * CallProduct.d
    /\ record.score = 100000

(***************************************************************************)
(* C10: the hazard_score, hazard_level and estimated_distance the endpoint *)
(* embeds for a detection are the score, level and estimated_distance of   *)
(* the score engine for the same bbox, image shape and class name.         *)
(***************************************************************************)
C10_ServiceAgreesWithEngine ==
    (ValidCall /\ Returned /\ embedded # None /\ ~IsError(embedded)) =>
        /\ embedded.hazard_score = record.score
        /\ embedded.hazard_level = record.level
        /\ embedded.estimated_distance = record.estimated_distance

(***************************************************************************)
(* Vocabulary of the zone properties.                                      *)
(***************************************************************************)
Levels == <<"LOW", "MEDIUM", "HIGH", "CRITICAL">>

Rank(level) == CHOOSE k \in 1..4 : Levels[k] = level

(* calculate_zone_risk has been called on `detections`. *)
Aggregated == zone # None

AllScored == \A i \in 1..Len(detections) : "hazard_score" \in DOMAIN detections[i]

HazardRecordFields ==
    {"score", "level", "estimated_distance", "color_code", "recommended_action",
     "priority"}

AllHazardRecords ==
    \A i \in 1..Len(detections) : DOMAIN detections[i] = HazardRecordFields

ScoresOf(dets) == [i \in 1..Len(dets) |-> dets[i].hazard_score]

(* The number of records whose score lies in [lo, hi). *)
InBucket(lo, hi) ==
    Cardinality({i \in 1..Len(detections) :
        lo <= detections[i].hazard_score /\ detections[i].hazard_score < hi})

(***************************************************************************)
(* C3: on a non-empty list of records with a numeric hazard score the      *)
(* counts are those of the buckets >= 80, [60, 80), [40, 60); overall_risk *)
(* is the most severe bucket that is not empty, and the recommendation     *)
(* names the count of that bucket.  Scores [85, 62, 30] give               *)
(* critical_objects = 1, high_risk_objects = 1, CRITICAL and               *)
(* "STOP! 1 object(s) in critical zone (0-2m)".                            *)
(***************************************************************************)
C3_BucketsAndOverallRisk ==
    (Aggregated /\ detections # <<>> /\ AllScored) =>
        LET c == InBucket(80000, 1000000)
            h == InBucket(60000, 80000)
            m == InBucket(40000, 60000)
        IN  /\ ~IsError(zone)
            /\ zone.critical_objects = c
            /\ zone.high_risk_objects = h
            /\ zone.medium_risk_objects = m
            /\ c > 0 =>
                 /\ zone.overall_risk = "CRITICAL"
                 /\ zone.recommendation =
                      "STOP! " \o ToString(c) \o " object(s) in critical zone (0-2m)"
            /\ (c = 0 /\ h > 0) =>
                 /\ zone.overall_risk = "HIGH"
                 /\ zone.recommendation =
                      "CAUTION: " \o ToString(h) \o " object(s) in high-risk zone (2-5m)"
            /\ (c = 0 /\ h = 0 /\ m > 0) =>
                 /\ zone.overall_risk = "MEDIUM"
                 /\ zone.recommendation =
                      "MONITOR: " \o ToString(m) \o " object(s) detected (5-8m)"
            /\ (c = 0 /\ h = 0 /\ m = 0) =>
                 /\ zone.overall_risk = "LOW"
                 /\ zone.recommendation = "Objects detected at safe distance (8m+)"
            /\ ScoresOf(detections) = <<85000, 62000, 30000>> =>
                 /\ zone.critical_objects = 1
                 /\ zone.high_risk_objects = 1
                 /\ zone.overall_risk = "CRITICAL"
                 /\ zone.recommendation = "STOP! 1 object(s) in critical zone (0-2m)"

(* The scenario [85, 62, 30], aggregated. *)
C3_Witness ==
    /\ Aggregated /\ AllScored /\ Len(detections) = 3
    /\ ScoresOf(detections) = <<85000, 62000, 30000>>
    /\ zone.overall_risk = "CRITICAL"
    /\ zone.high_risk_objects = 1

(***************************************************************************)
(* C4: a returned ZoneRisk is SAFE exactly when the list is empty; on the  *)
(* empty list max_hazard_score is 0, on a non-empty list overall_risk is   *)
(* one of LOW, MEDIUM, HIGH, CRITICAL.                                     *)
(***************************************************************************)
C4_SafeIffEmpty ==
    (Aggregated /\ ~IsError(zone)) =>
        /\ zone.overall_risk = "SAFE" <=> detections = <<>>
        /\ detections = <<>> => zone.max_hazard_score = 0
        /\ detections # <<>> =>
             zone.overall_risk \in {"LOW", "MEDIUM", "HIGH", "CRITICAL"}

(* The empty list, aggregated and reported SAFE with a maximum of 0. *)
C4_Witness ==
    /\ Aggregated /\ ~IsError(zone)
    /\ detections = <<>>
    /\ zone.overall_risk = "SAFE"
    /\ zone.max_hazard_score = 0

(***************************************************************************)
(* C5: every returned ZoneRisk, for the empty list too, has exactly the    *)
(* fields overall_risk, max_hazard_score, critical_objects,                *)
(* high_risk_objects, medium_risk_objects, total_objects, recommendation,  *)
(* and total_objects is the number of records.                             *)
(***************************************************************************)
C5_ZoneRiskFields ==
    (Aggregated /\ ~IsError(zone)) =>
        /\ DOMAIN zone =
             {"overall_risk", "max_hazard_score", "critical_objects",
              "high_risk_objects", "medium_risk_objects", "total_objects",
              "recommendation"}
        /\ zone.total_objects = Len(detections)

(***************************************************************************)
(* C6: on a non-empty list of HazardRecords as the score engine returns    *)
(* them, calculate_zone_risk returns a ZoneRisk whose overall_risk is the  *)
(* highest level among the records.                                        *)
(***************************************************************************)
C6_ComposesWithScoreEngine ==
    (Aggregated /\ detections # <<>> /\ AllHazardRecords) =>
        /\ ~IsError(zone)
        /\ \E i \in 1..Len(detections) : zone.overall_risk = detections[i].level
        /\ \A i \in 1..Len(detections) :
             Rank(detections[i].level) <= Rank(zone.overall_risk)

(***************************************************************************)
(* C11: on a non-empty list of records with numeric hazard scores, scores  *)
(* with more than two decimals included, the returned ZoneRisk agrees with *)
(* itself: overall_risk is the level the thresholds 80, 60, 40 assign to   *)
(* the reported max_hazard_score, and critical_objects + high_risk_objects *)
(* + medium_risk_objects <= total_objects.                                 *)
(***************************************************************************)
C11_ZoneRiskSelfConsistent ==
    (Aggregated /\ detections # <<>> /\ AllScored /\ ~IsError(zone)) =>
        /\ zone.overall_risk = ThresholdLevel(zone.max_hazard_score)
        /\ zone.critical_objects + zone.high_risk_objects
             + zone.medium_risk_objects <= zone.total_objects

====
